---- MODULE Spec2Model ----
(***************************************************************************)
(* Model of latex_cleanup.py: four text-rewrite passes over a LaTeX        *)
(* document and the cleanup_latex pipeline that composes them.             *)
(*                                                                         *)
(* A document is a sequence of chunks.  A chunk is a piece of text that    *)
(* the patterns of the program treat as a unit: a whole marker             *)
(* ("\\begin{minipage}[t]{w}"), one whitespace character, one non-ASCII     *)
(* symbol (named by its code point), a run of ordinary characters, or one  *)
(* of the two halves "\\begin{qu" and "ote}" of the quotation begin-marker. *)
(* The document a chunk sequence stands for is the concatenation of its    *)
(* chunks, and a literal of a pattern occurs where its chunks occur.       *)
(***************************************************************************)
EXTENDS Naturals, Sequences, FiniteSets

VARIABLES input, text, prev, count, budget, last, pc,
          quote_count, unicode_count, simplified_longtable, bib_count, stats

vars == <<input, text, prev, count, budget, last, pc,
          quote_count, unicode_count, simplified_longtable, bib_count, stats>>

(***************************************************************************)
(* Chunks                                                                  *)
(***************************************************************************)
SP == " "
NL == "\n"
Whitespace == {SP, NL}

BEGIN_QUOTE == <<"\\begin{qu", "ote}">>
END_QUOTE == <<"\\end{quote}">>
ITEM == <<"\\item">>
END_LONGTABLE == <<"\\end{longtable}">>
BEGIN_MINIPAGE == <<"\\begin{minipage}[t]{w}">>
END_MINIPAGE == <<"\\end{minipage}">>

\* The column specifications of the model's long tables.
ColSpecs == {"ll", "c"}

\* f"\\begin{{longtable}}{{{cols}}}": the begin-marker with its argument.
BeginLongtable(cols) ==
    IF cols = "ll" THEN <<"\\begin{longtable}{ll}">>
                   ELSE <<"\\begin{longtable}{c}">>

(***************************************************************************)
(* String helpers: slices, literal search, str.strip, str.count,           *)
(* str.replace.                                                            *)
(***************************************************************************)
Slice(s, a, b) == IF a > b THEN <<>> ELSE SubSeq(s, a, b)

\* The literal lit occurs in s starting at position i.
OccursAt(s, i, lit) ==
    /\ i >= 1
    /\ i + Len(lit) - 1 <= Len(s)
    /\ \A j \in 1..Len(lit) : s[i + j - 1] = lit[j]

\* The first position >= i where lit occurs in s, or 0.
RECURSIVE FindFrom(_, _, _)
FindFrom(s, i, lit) ==
    IF i + Len(lit) - 1 > Len(s) THEN 0
    ELSE IF OccursAt(s, i, lit) THEN i
    ELSE FindFrom(s, i + 1, lit)

\* The first position >= i of s that holds no whitespace (Len(s) + 1 if none).
RECURSIVE SkipSpace(_, _)
SkipSpace(s, i) ==
    IF i > Len(s) THEN i
    ELSE IF s[i] \in Whitespace THEN SkipSpace(s, i + 1)
    ELSE i

RECURSIVE lstrip(_)
lstrip(s) ==
    IF s = <<>> THEN <<>>
    ELSE IF Head(s) \in Whitespace THEN lstrip(Tail(s))
    ELSE s

RECURSIVE rstrip(_)
rstrip(s) ==
    IF s = <<>> THEN <<>>
    ELSE IF s[Len(s)] \in Whitespace THEN rstrip(SubSeq(s, 1, Len(s) - 1))
    ELSE s

\* str.strip()
strip(s) == rstrip(lstrip(s))

\* str.count(char) for a one-chunk symbol.
RECURSIVE str_count(_, _)
str_count(s, char) ==
    IF s = <<>> THEN 0
    ELSE (IF Head(s) = char THEN 1 ELSE 0) + str_count(Tail(s), char)

\* str.replace(char, replacement) for a one-chunk symbol.
RECURSIVE str_replace(_, _, _)
str_replace(s, char, replacement) ==
    IF s = <<>> THEN <<>>
    ELSE (IF Head(s) = char THEN replacement ELSE <<Head(s)>>)
         \o str_replace(Tail(s), char, replacement)

(***************************************************************************)
(* The patterns.  Each is the match of the compiled pattern anchored at    *)
(* position i of s: whether it matches there, its groups, and the position *)
(* after the match.  All four are lazy (.*?) under re.DOTALL: the match    *)
(* ends at the first end-marker after the begin-marker.                    *)
(***************************************************************************)
NoMatch == [found |-> FALSE, stop |-> 0, cols |-> "", body |-> <<>>]

\* The last position >= i where lit occurs in s, or 0 (a greedy .* would end there).
RECURSIVE FindLast(_, _, _)
FindLast(s, i, lit) ==
    LET first == FindFrom(s, i, lit)
    IN  IF first = 0 THEN 0
        ELSE LET later == FindLast(s, first + 1, lit)
             IN  IF later = 0 THEN first ELSE later

\* Mutant: a greedy (.*) in place of (.*?) ends at the last end-marker.
QuoteEndGreedy(s, b) == FindLast(s, b, END_QUOTE)

\* Mutant: (\\end\{quote\}|\Z) lets the end of the document close a wrapper.
QuoteEndOrEof(s, b) ==
    IF FindFrom(s, b, END_QUOTE) # 0 THEN FindFrom(s, b, END_QUOTE) ELSE Len(s) + 1

\* Where (.*?)\s*\\end\{quote\} finds its end-marker, searching from position b.
QuoteEnd(s, b) == FindFrom(s, b, END_QUOTE)

\* \\begin\{quote\}\s*(.*?)\s*\\end\{quote\}: the leading \s* takes all the
\* whitespace after the begin-marker, group 1 grows until \s*\\end\{quote\}
\* matches, so it ends before the whitespace in front of the end-marker.
QUOTE_BLOCK_PATTERN(s, i) ==
    LET b == i + Len(BEGIN_QUOTE)
        e == QuoteEnd(s, b)
    IN  IF OccursAt(s, i, BEGIN_QUOTE) /\ e # 0
        THEN [found |-> TRUE, stop |-> e + Len(END_QUOTE), cols |-> "",
              body |-> rstrip(lstrip(Slice(s, b, e - 1)))]
        ELSE NoMatch

\* \\begin\{longtable\}\{(?P<cols>[^}]*)\}(?P<body>.*?)\\end\{longtable\}
LONGTABLE_PATTERN(s, i) ==
    LET e == FindFrom(s, i + 1, END_LONGTABLE)
    IN  IF /\ i <= Len(s)
           /\ \E c \in ColSpecs : <<s[i]>> = BeginLongtable(c)
           /\ e # 0
        THEN [found |-> TRUE, stop |-> e + Len(END_LONGTABLE),
              cols |-> CHOOSE c \in ColSpecs : <<s[i]>> = BeginLongtable(c),
              body |-> Slice(s, i + 1, e - 1)]
        ELSE NoMatch

\* \\begin\{minipage\}\[[^\]]*\]\{[^}]*\}(?P<body>.*?)\\end\{minipage\}
MINIPAGE_PATTERN(s, i) ==
    LET b == i + Len(BEGIN_MINIPAGE)
        e == FindFrom(s, b, END_MINIPAGE)
    IN  IF OccursAt(s, i, BEGIN_MINIPAGE) /\ e # 0
        THEN [found |-> TRUE, stop |-> e + Len(END_MINIPAGE), cols |-> "",
              body |-> Slice(s, b, e - 1)]
        ELSE NoMatch

\* (?P<item>\\item)\s*\\begin\{quote\}\s*(?P<body>.*?)\s*\\end\{quote\}
BIBITEM_QUOTE_PATTERN(s, i) ==
    LET q == SkipSpace(s, i + Len(ITEM))
        b == q + Len(BEGIN_QUOTE)
        e == FindFrom(s, b, END_QUOTE)
    IN  IF OccursAt(s, i, ITEM) /\ OccursAt(s, q, BEGIN_QUOTE) /\ e # 0
        THEN [found |-> TRUE, stop |-> e + Len(END_QUOTE), cols |-> "",
              body |-> rstrip(lstrip(Slice(s, b, e - 1)))]
        ELSE NoMatch

\* UNICODE_MATH_REPLACEMENTS in dict order.  The replacements are raw strings
\* written with two backslashes, so each starts with two backslash characters.
UNICODE_MATH_REPLACEMENTS ==
    << <<"U+01AE",  <<"\\", "\\", "tau">> >>,
       <<"U+1D4B5", <<"\\", "\\", "mathcal{Z}">> >>,
       <<"U+2124",  <<"\\", "\\", "mathbb{Z}">> >>,
       <<"U+211D",  <<"\\", "\\", "mathbb{R}">> >>,
       <<"U+211A",  <<"\\", "\\", "mathbb{Q}">> >>,
       <<"U+2115",  <<"\\", "\\", "mathbb{N}">> >> >>

(***************************************************************************)
(* The passes.  Each returns [text, count].  The scanners are              *)
(* Pattern.subn: matches are found left to right, and the search resumes   *)
(* where the previous match stopped.                                       *)
(***************************************************************************)
\* The replacer of remove_quote_blocks: match.group(1).strip()
quote_replacer(m) == strip(m.body)

\* Mutant: subn(replacer, text, count=1) replaces the first match only.
RECURSIVE quote_subn_first_only(_, _)
quote_subn_first_only(s, i) ==
    IF i > Len(s) THEN [text |-> <<>>, count |-> 0]
    ELSE LET m == QUOTE_BLOCK_PATTERN(s, i)
         IN  IF m.found
             THEN [text |-> quote_replacer(m) \o Slice(s, m.stop, Len(s)), count |-> 1]
             ELSE LET r == quote_subn_first_only(s, i + 1)
                  IN  [text |-> <<s[i]>> \o r.text, count |-> r.count]

RECURSIVE quote_subn(_, _)
quote_subn(s, i) ==
    IF i > Len(s) THEN [text |-> <<>>, count |-> 0]
    ELSE LET m == QUOTE_BLOCK_PATTERN(s, i)
         IN  IF m.found
             THEN LET r == quote_subn(s, m.stop)
                  IN  [text |-> quote_replacer(m) \o r.text, count |-> r.count + 1]
             ELSE LET r == quote_subn(s, i + 1)
                  IN  [text |-> <<s[i]>> \o r.text, count |-> r.count]

\* Mutant: unwrap again until no wrapper is left (a balanced unwrapping).
RECURSIVE remove_quote_blocks_to_fixpoint(_)
remove_quote_blocks_to_fixpoint(s) ==
    LET r == quote_subn(s, 1)
    IN  IF r.count = 0 THEN r
        ELSE LET again == remove_quote_blocks_to_fixpoint(r.text)
             IN  [text |-> again.text, count |-> r.count + again.count]

remove_quote_blocks(s) == quote_subn(s, 1)

\* Mutant: count += 1 for a symbol that is present, not text.count(char).
unicode_step_counts_symbols(acc, entry) ==
    IF str_count(acc.text, entry[1]) > 0
    THEN [text |-> str_replace(acc.text, entry[1], entry[2]),
          count |-> acc.count + 1]
    ELSE acc

\* One iteration of the loop of normalize_unicode_math over a table entry.
unicode_step(acc, entry) ==
    IF str_count(acc.text, entry[1]) > 0
    THEN [text |-> str_replace(acc.text, entry[1], entry[2]),
          count |-> acc.count + str_count(acc.text, entry[1])]
    ELSE acc

RECURSIVE unicode_loop(_, _, _)
unicode_loop(acc, table, k) ==
    IF k > Len(table) THEN acc
    ELSE unicode_loop(unicode_step(acc, table[k]), table, k + 1)

normalize_unicode_math(s) ==
    unicode_loop([text |-> s, count |-> 0], UNICODE_MATH_REPLACEMENTS, 1)

\* The replacer of _strip_minipages: match.group("body").strip()
minipage_replacer(m) == strip(m.body)

RECURSIVE minipage_subn(_, _)
minipage_subn(s, i) ==
    IF i > Len(s) THEN <<>>
    ELSE LET m == MINIPAGE_PATTERN(s, i)
         IN  IF m.found
             THEN minipage_replacer(m) \o minipage_subn(s, m.stop)
             ELSE <<s[i]>> \o minipage_subn(s, i + 1)

strip_minipages(body) == minipage_subn(body, 1)

\* Mutant: every matched table is counted, changed or not.
longtable_replacer_counts_all(m) ==
    [text |-> BeginLongtable(m.cols) \o strip_minipages(m.body) \o END_LONGTABLE,
     count |-> 1]

\* The replacer of simplify_longtables: the table rebuilt around its new body,
\* and whether it was counted.
longtable_replacer(m) ==
    LET new_body == strip_minipages(m.body)
    IN  [text |-> BeginLongtable(m.cols) \o new_body \o END_LONGTABLE,
         count |-> IF new_body # m.body THEN 1 ELSE 0]

RECURSIVE longtable_sub(_, _)
longtable_sub(s, i) ==
    IF i > Len(s) THEN [text |-> <<>>, count |-> 0]
    ELSE LET m == LONGTABLE_PATTERN(s, i)
         IN  IF m.found
             THEN LET t == longtable_replacer(m)
                      r == longtable_sub(s, m.stop)
                  IN  [text |-> t.text \o r.text, count |-> t.count + r.count]
             ELSE LET r == longtable_sub(s, i + 1)
                  IN  [text |-> <<s[i]>> \o r.text, count |-> r.count]

simplify_longtables(s) == longtable_sub(s, 1)

\* Mutant: f"{item}{body}", the space between the two left out.
bibitem_replacer_no_space(m) == ITEM \o strip(m.body)

\* The replacer of normalize_bibliography_items:
\* f"{match.group('item')} {match.group('body').strip()}"
bibitem_replacer(m) == ITEM \o <<SP>> \o strip(m.body)

RECURSIVE bibitem_subn(_, _)
bibitem_subn(s, i) ==
    IF i > Len(s) THEN [text |-> <<>>, count |-> 0]
    ELSE LET m == BIBITEM_QUOTE_PATTERN(s, i)
         IN  IF m.found
             THEN LET r == bibitem_subn(s, m.stop)
                  IN  [text |-> bibitem_replacer(m) \o r.text, count |-> r.count + 1]
             ELSE LET r == bibitem_subn(s, i + 1)
                  IN  [text |-> <<s[i]>> \o r.text, count |-> r.count]

normalize_bibliography_items(s) == bibitem_subn(s, 1)

(***************************************************************************)
(* Input documents: every concatenation of at most n pieces of a set.      *)
(***************************************************************************)
MaxQuotePieces == 5
MaxUnicodePieces == 3
MaxTablePieces == 5
MaxBibPieces == 7
MaxPassPieces == 4
MaxPipelinePieces == 5
MaxCalls == 2

RECURSIVE DocsOver(_, _)
DocsOver(pieces, n) ==
    IF n = 0 THEN {<<>>}
    ELSE LET shorter == DocsOver(pieces, n - 1)
         IN  shorter \cup {d \o p : d \in shorter, p \in pieces}

AllSix == [k \in 1..Len(UNICODE_MATH_REPLACEMENTS) |-> UNICODE_MATH_REPLACEMENTS[k][1]]
PlainTable == BeginLongtable("c") \o <<"x">> \o END_LONGTABLE
BoxedTable == BeginLongtable("ll") \o BEGIN_MINIPAGE \o <<SP, "x">>
              \o END_MINIPAGE \o END_LONGTABLE

\* \begin{qu\begin{quote}\end{quote}ote}: a wrapper between the two halves of a marker.
SplitQuote == <<BEGIN_QUOTE[1]>> \o BEGIN_QUOTE \o END_QUOTE \o <<BEGIN_QUOTE[2]>>

QuotePieces == {BEGIN_QUOTE, <<BEGIN_QUOTE[1]>>, <<BEGIN_QUOTE[2]>>,
                END_QUOTE, <<SP>>, <<"x">>}
UnicodePieces == {AllSix, <<"U+1D4B5">>, <<"U+211D">>, <<"x">>}
TablePieces == {BeginLongtable("ll"), END_LONGTABLE, BEGIN_MINIPAGE,
                END_MINIPAGE, <<SP>>, <<"x">>, PlainTable}
BibPieces == {ITEM, BEGIN_QUOTE, END_QUOTE, <<NL>>, <<"x">>}
PassPieces == {BEGIN_QUOTE, END_QUOTE, ITEM, BeginLongtable("ll"), END_LONGTABLE,
               BEGIN_MINIPAGE, END_MINIPAGE, <<SP>>, <<"U+211D">>}
PipelinePieces == {ITEM, BEGIN_QUOTE, END_QUOTE, <<SP>>, <<"U+211D">>, BoxedTable,
                   SplitQuote}

\* \begin{quote}Hello U+211D\end{quote}
HelloDoc == BEGIN_QUOTE \o <<"Hello", SP, "U+211D">> \o END_QUOTE

NoStats == [removed_quote_blocks |-> 0, unicode_replacements |-> 0,
            simplified_longtables |-> 0, normalized_bibliography_items |-> 0]

Start(docs, where, calls) ==
    /\ input \in docs
    /\ text = input
    /\ prev = input
    /\ count = 0
    /\ budget = calls
    /\ last = "none"
    /\ pc = where
    /\ quote_count = 0
    /\ unicode_count = 0
    /\ simplified_longtable = 0
    /\ bib_count = 0
    /\ stats = NoStats

(***************************************************************************)
(* A pass called on its own: the caller keeps the returned document and    *)
(* count, and may call again on the document it got back.                  *)
(***************************************************************************)
Returned(name, r) ==
    /\ pc = "caller"
    /\ budget > 0
    /\ budget' = budget - 1
    /\ prev' = text
    /\ text' = r.text
    /\ count' = r.count
    /\ last' = name
    /\ UNCHANGED <<input, pc, quote_count, unicode_count, simplified_longtable,
                   bib_count, stats>>

CallRemoveQuoteBlocks == Returned("remove_quote_blocks", remove_quote_blocks(text))
CallNormalizeUnicodeMath == Returned("normalize_unicode_math", normalize_unicode_math(text))
CallSimplifyLongtables == Returned("simplify_longtables", simplify_longtables(text))
CallNormalizeBibliographyItems ==
    Returned("normalize_bibliography_items",
             normalize_bibliography_items(text))

(***************************************************************************)
(* cleanup_latex, one step per statement.                                  *)
(***************************************************************************)
Cleanup99 ==
    /\ pc = "line99"
    /\ text' = remove_quote_blocks(text).text
    /\ quote_count' = remove_quote_blocks(text).count
    /\ pc' = "line100"
    /\ UNCHANGED <<input, prev, count, budget, last, unicode_count,
                   simplified_longtable, bib_count, stats>>

Cleanup100 ==
    /\ pc = "line100"
    /\ text' = normalize_unicode_math(text).text
    /\ unicode_count' = normalize_unicode_math(text).count
    /\ pc' = "line101"
    /\ UNCHANGED <<input, prev, count, budget, last, quote_count,
                   simplified_longtable, bib_count, stats>>

Cleanup101 ==
    /\ pc = "line101"
    /\ text' = simplify_longtables(text).text
    /\ simplified_longtable' = simplify_longtables(text).count
    /\ pc' = "line102"
    /\ UNCHANGED <<input, prev, count, budget, last, quote_count, unicode_count,
                   bib_count, stats>>

\* Mutant: the fourth pass is handed the raw input document.
Cleanup102OnInput ==
    /\ pc = "line102"
    /\ text' = normalize_bibliography_items(input).text
    /\ bib_count' = normalize_bibliography_items(input).count
    /\ pc' = "line104"
    /\ UNCHANGED <<input, prev, count, budget, last, quote_count, unicode_count,
                   simplified_longtable, stats>>

Cleanup102 ==
    /\ pc = "line102"
    /\ text' = normalize_bibliography_items(text).text
    /\ bib_count' = normalize_bibliography_items(text).count
    /\ pc' = "line104"
    /\ UNCHANGED <<input, prev, count, budget, last, quote_count, unicode_count,
                   simplified_longtable, stats>>

Cleanup104 ==
    /\ pc = "line104"
    /\ stats' = [removed_quote_blocks |-> quote_count,
                 unicode_replacements |-> unicode_count,
                 simplified_longtables |-> simplified_longtable,
                 normalized_bibliography_items |-> bib_count]
    /\ pc' = "done"
    /\ UNCHANGED <<input, text, prev, count, budget, last, quote_count, unicode_count,
                   simplified_longtable, bib_count>>

(***************************************************************************)
(* Specifications: the pipeline, and each pass called on its own.          *)
(***************************************************************************)
Init == Start(DocsOver(PipelinePieces, MaxPipelinePieces) \cup {HelloDoc}, "line99", 0)
Next == Cleanup99 \/ Cleanup100 \/ Cleanup101 \/ Cleanup102 \/ Cleanup104
Spec == Init /\ [][Next]_vars

InitQuote == Start(DocsOver(QuotePieces, MaxQuotePieces), "caller", MaxCalls)
NextQuote == CallRemoveQuoteBlocks
SpecQuote == InitQuote /\ [][NextQuote]_vars

InitUnicode == Start(DocsOver(UnicodePieces, MaxUnicodePieces), "caller", 1)
NextUnicode == CallNormalizeUnicodeMath
SpecUnicode == InitUnicode /\ [][NextUnicode]_vars

InitTables == Start(DocsOver(TablePieces, MaxTablePieces), "caller", 1)
NextTables == CallSimplifyLongtables
SpecTables == InitTables /\ [][NextTables]_vars

InitBib == Start(DocsOver(BibPieces, MaxBibPieces), "caller", 1)
NextBib == CallNormalizeBibliographyItems
SpecBib == InitBib /\ [][NextBib]_vars

InitPasses == Start(DocsOver(PassPieces, MaxPassPieces), "caller", 1)
NextPasses ==
    \/ CallRemoveQuoteBlocks
    \/ CallNormalizeUnicodeMath
    \/ CallSimplifyLongtables
    \/ CallNormalizeBibliographyItems
SpecPasses == InitPasses /\ [][NextPasses]_vars

(***************************************************************************)
(* Vocabulary of the claims.                                               *)
(***************************************************************************)
\* The number of places where the literal lit occurs in s.
NumOcc(s, lit) == Cardinality({i \in 1..Len(s) : OccursAt(s, i, lit)})

\* The quotation markers of s in document order: "B" for a begin-marker,
\* "E" for an end-marker, each with its position.
RECURSIVE QuoteMarkers(_, _)
QuoteMarkers(s, i) ==
    IF i > Len(s) THEN <<>>
    ELSE IF OccursAt(s, i, BEGIN_QUOTE)
         THEN <<[kind |-> "B", at |-> i]>> \o QuoteMarkers(s, i + 1)
    ELSE IF OccursAt(s, i, END_QUOTE)
         THEN <<[kind |-> "E", at |-> i]>> \o QuoteMarkers(s, i + 1)
    ELSE QuoteMarkers(s, i + 1)

\* s holds k wrappers side by side and no other marker: begin, end, begin, end ...
NonNested(s) ==
    LET m == QuoteMarkers(s, 1)
    IN  /\ Len(m) % 2 = 0
        /\ \A j \in 1..Len(m) : m[j].kind = (IF j % 2 = 1 THEN "B" ELSE "E")

WrapperCount(s) == Len(QuoteMarkers(s, 1)) \div 2

\* The halves of a begin-marker occur in s only as parts of a whole marker.
FragmentFree(s) ==
    \A i \in 1..Len(s) :
        /\ s[i] = BEGIN_QUOTE[1] => OccursAt(s, i, BEGIN_QUOTE)
        /\ s[i] = BEGIN_QUOTE[2] => OccursAt(s, i - 1, BEGIN_QUOTE)

\* The deepest nesting of wrappers in a marker sequence (1: side by side).
RECURSIVE MaxDepth(_, _, _)
MaxDepth(m, j, d) ==
    IF j > Len(m) THEN d
    ELSE IF m[j].kind = "B"
         THEN LET rest == MaxDepth(m, j + 1, d + 1)
              IN  IF rest > d + 1 THEN rest ELSE d + 1
    ELSE LET rest == MaxDepth(m, j + 1, IF d > 0 THEN d - 1 ELSE 0)
         IN  IF rest > d THEN rest ELSE d

NestingDepth(s) == MaxDepth(QuoteMarkers(s, 1), 1, 0)

\* A begin-marker lies between a begin-marker and an end-marker after it.
HasNestedBegin(s) ==
    LET m == QuoteMarkers(s, 1)
    IN  \E i \in 1..Len(m) : \E j \in 1..Len(m) :
            /\ i + 1 < j
            /\ m[i].kind = "B" /\ m[i + 1].kind = "B" /\ m[j].kind = "E"

\* For a NonNested document: each wrapper replaced by its trimmed content, the
\* text outside the wrappers kept.
RECURSIVE UnwrapFrom(_, _, _, _)
UnwrapFrom(s, m, j, from) ==
    IF j > Len(m) THEN Slice(s, from, Len(s))
    ELSE Slice(s, from, m[j].at - 1)
         \o strip(Slice(s, m[j].at + Len(BEGIN_QUOTE), m[j + 1].at - 1))
         \o UnwrapFrom(s, m, j + 2, m[j + 1].at + Len(END_QUOTE))

Unwrapped(s) == UnwrapFrom(s, QuoteMarkers(s, 1), 1, 1)

\* How many pairs a left-to-right scan makes of a marker sequence when each
\* begin-marker met outside a pair is closed by the first end-marker after it.
RECURSIVE PairCount(_, _, _)
PairCount(m, j, open) ==
    IF j > Len(m) THEN 0
    ELSE IF open
         THEN (IF m[j].kind = "E" THEN 1 + PairCount(m, j + 1, FALSE)
                                  ELSE PairCount(m, j + 1, TRUE))
    ELSE PairCount(m, j + 1, m[j].kind = "B")

IsSuffix(t, s) == Len(t) <= Len(s) /\ Slice(s, Len(s) - Len(t) + 1, Len(s)) = t

AfterFirstQuoteCall == last = "remove_quote_blocks" /\ budget = MaxCalls - 1

\* outer wrapper around one complete inner wrapper
NestedDoc == BEGIN_QUOTE \o BEGIN_QUOTE \o <<"x">> \o END_QUOTE \o END_QUOTE

(***************************************************************************)
(* C1.  cleanup_latex on \begin{quote}Hello U+211D\end{quote} returns the   *)
(* document Hello \mathbb{R}, the macro with one leading backslash, and the *)
(* report 1, 1, 0, 0.                                                      *)
(***************************************************************************)
C1_HelloExample ==
    (pc = "done" /\ input = HelloDoc) =>
        /\ text = <<"Hello", SP, "\\", "mathbb{R}">>
        /\ stats = [removed_quote_blocks |-> 1, unicode_replacements |-> 1,
                    simplified_longtables |-> 0, normalized_bibliography_items |-> 0]

(***************************************************************************)
(* C2.  As claimed: for every input document, nested or unbalanced markers *)
(* included, the report of cleanup_latex has                               *)
(* normalized_bibliography_items = 0.                                      *)
(***************************************************************************)
C2_BibCountAlwaysZero ==
    pc = "done" => stats.normalized_bibliography_items = 0

(***************************************************************************)
(* C2, amended.  For every input document in which no quotation            *)
(* begin-marker lies between a begin-marker and an end-marker after it,    *)
(* and in which the halves of a marker occur only in whole markers, the    *)
(* report of cleanup_latex has normalized_bibliography_items = 0.          *)
(***************************************************************************)
C2_BibCountZeroWithoutNesting ==
    (pc = "done" /\ ~HasNestedBegin(input) /\ FragmentFree(input)) =>
        stats.normalized_bibliography_items = 0

C2_Witness ==
    /\ pc = "done"
    /\ input = ITEM \o BEGIN_QUOTE \o <<"U+211D">> \o END_QUOTE \o <<SP>>
    /\ stats.removed_quote_blocks = 1
    /\ stats.normalized_bibliography_items = 0

C4_IdempotentOneLevel ==
    (last = "remove_quote_blocks" /\ budget <= MaxCalls - 2
        /\ NestingDepth(input) <= 2) =>
        (text = prev /\ count = 0)

(***************************************************************************)
(* C4, amended.  On documents in which no wrapper holds a begin-marker     *)
(* (nesting depth at most one) and the halves of a marker occur only in    *)
(* whole markers, running remove_quote_blocks on its own output returns    *)
(* that output and count 0.                                                *)
(***************************************************************************)
C4_IdempotentWithoutNesting ==
    (last = "remove_quote_blocks" /\ budget <= MaxCalls - 2
        /\ NestingDepth(input) <= 1 /\ FragmentFree(input)) =>
        (text = prev /\ count = 0)

C4_Witness ==
    /\ last = "remove_quote_blocks" /\ budget = MaxCalls - 2
    /\ input = <<"x">> \o BEGIN_QUOTE \o <<SP, "x">> \o END_QUOTE
    /\ prev = <<"x", "x">>
    /\ text = prev /\ count = 0

(***************************************************************************)
(* C5.  normalize_unicode_math returns a count equal to the number of      *)
(* occurrences of the six table symbols in its input and a document with   *)
(* no table symbol, each occurrence replaced in place by the symbol's      *)
(* macro string of the table; a document with each symbol once gives       *)
(* count 6 and each macro string once; and applying the table entries in   *)
(* any other order gives the same document and count.                      *)
(***************************************************************************)
Symbols == {AllSix[k] : k \in 1..Len(AllSix)}

MacroOf(char) ==
    UNICODE_MATH_REPLACEMENTS[
        CHOOSE k \in 1..Len(UNICODE_MATH_REPLACEMENTS) :
            UNICODE_MATH_REPLACEMENTS[k][1] = char][2]

RECURSIVE InPlace(_)
InPlace(s) ==
    IF s = <<>> THEN <<>>
    ELSE (IF Head(s) \in Symbols THEN MacroOf(Head(s)) ELSE <<Head(s)>>)
         \o InPlace(Tail(s))

TableOrders ==
    {p \in [1..Len(UNICODE_MATH_REPLACEMENTS) -> 1..Len(UNICODE_MATH_REPLACEMENTS)] :
        \A a, b \in 1..Len(UNICODE_MATH_REPLACEMENTS) : a # b => p[a] # p[b]}

HasWrapper(body) ==
    \E i \in 1..Len(body) :
        /\ OccursAt(body, i, BEGIN_MINIPAGE)
        /\ FindFrom(body, i + Len(BEGIN_MINIPAGE), END_MINIPAGE) # 0

RECURSIVE TablesExpected(_, _)
TablesExpected(s, i) ==
    IF i > Len(s) THEN [text |-> <<>>, count |-> 0, ok |-> TRUE]
    ELSE LET m == LONGTABLE_PATTERN(s, i)
         IN  IF m.found
             THEN LET r == TablesExpected(s, m.stop)
                      alone == simplify_longtables(Slice(s, i, m.stop - 1))
                  IN  [text |-> alone.text \o r.text,
                       count |-> (IF HasWrapper(m.body) THEN 1 ELSE 0) + r.count,
                       ok |-> /\ r.ok
                              /\ alone.count = (IF HasWrapper(m.body) THEN 1 ELSE 0)
                              /\ HasWrapper(m.body) =>
                                     Len(alone.text) < m.stop - i
                              /\ ~HasWrapper(m.body) =>
                                     alone.text = Slice(s, i, m.stop - 1)]
             ELSE LET r == TablesExpected(s, i + 1)
                  IN  [text |-> <<s[i]>> \o r.text, count |-> r.count, ok |-> r.ok]

C6_SelectiveCount ==
    last = "simplify_longtables" =>
        LET e == TablesExpected(prev, 1)
        IN  e.ok /\ text = e.text /\ count = e.count

C6_Witness ==
    /\ last = "simplify_longtables"
    /\ prev = BeginLongtable("ll") \o BEGIN_MINIPAGE \o END_MINIPAGE
              \o END_LONGTABLE \o PlainTable
    /\ count = 1
    /\ text = BeginLongtable("ll") \o END_LONGTABLE \o PlainTable

(***************************************************************************)
(* C7.  In each pass, a begin-marker of the pass with no end-marker after  *)
(* it in the document is left alone with all the text that follows it, and *)
(* a document with no complete match of the pass's pattern is returned     *)
(* as it was with count 0.                                                 *)
(***************************************************************************)
\* The (begin-marker, end-marker) pairs of a pass.
MarkerPairs(pass) ==
    CASE pass = "remove_quote_blocks" -> {<<BEGIN_QUOTE, END_QUOTE>>}
      [] pass = "normalize_bibliography_items" ->
            {<<BEGIN_QUOTE, END_QUOTE>>, <<ITEM, END_QUOTE>>}
      [] pass = "simplify_longtables" ->
            {<<BeginLongtable(c), END_LONGTABLE>> : c \in ColSpecs}
            \cup {<<BEGIN_MINIPAGE, END_MINIPAGE>>}
      [] OTHER -> {}

Followed(s, i, pair) ==
    OccursAt(s, i, pair[1]) /\ FindFrom(s, i + Len(pair[1]), pair[2]) # 0

\* s holds a complete match of the pattern of the pass.
HasCompleteMatch(pass, s) ==
    CASE pass = "remove_quote_blocks" ->
            \E i \in 1..Len(s) : Followed(s, i, <<BEGIN_QUOTE, END_QUOTE>>)
      [] pass = "normalize_bibliography_items" ->
            \E i \in 1..Len(s) :
                /\ OccursAt(s, i, ITEM)
                /\ Followed(s, SkipSpace(s, i + Len(ITEM)), <<BEGIN_QUOTE, END_QUOTE>>)
      [] pass = "simplify_longtables" ->
            \E i \in 1..Len(s) : \E c \in ColSpecs :
                Followed(s, i, <<BeginLongtable(c), END_LONGTABLE>>)
      [] OTHER -> \E i \in 1..Len(s) : s[i] \in Symbols

C7_UnterminatedLeftAlone ==
    (last # "none" /\ pc = "caller") =>
        /\ \A pair \in MarkerPairs(last) : \A i \in 1..Len(prev) :
               (OccursAt(prev, i, pair[1]) /\ ~Followed(prev, i, pair))
                   => IsSuffix(Slice(prev, i, Len(prev)), text)
        /\ ~HasCompleteMatch(last, prev) => (text = prev /\ count = 0)

C7_Witness ==
    /\ last = "remove_quote_blocks"
    /\ prev = BEGIN_QUOTE \o END_QUOTE \o BEGIN_QUOTE \o <<"U+211D">>
    /\ text = BEGIN_QUOTE \o <<"U+211D">>
    /\ count = 1

(***************************************************************************)
(* C8.  Called on its own on a document whose only quotation wrappers each *)
(* follow a list-item marker with only whitespace in between,              *)
(* normalize_bibliography_items returns the number of these items as its   *)
(* count and rewrites each to the item marker, one space and the trimmed   *)
(* content of the wrapper, leaving no quotation marker.                    *)
(***************************************************************************)
\* The position of the item marker that the begin-marker at position b follows
\* with only whitespace in between, or 0.
ItemBefore(s, b) ==
    LET ps == {p \in 1..Len(s) :
                  OccursAt(s, p, ITEM) /\ p < b /\ SkipSpace(s, p + Len(ITEM)) = b}
    IN  IF ps = {} THEN 0 ELSE CHOOSE p \in ps : TRUE

OnlyItemWrappers(s) ==
    LET m == QuoteMarkers(s, 1)
    IN  /\ NonNested(s)
        /\ \A j \in 1..Len(m) : m[j].kind = "B" => ItemBefore(s, m[j].at) # 0

RECURSIVE CollapseFrom(_, _, _, _)
CollapseFrom(s, m, j, from) ==
    IF j > Len(m) THEN Slice(s, from, Len(s))
    ELSE Slice(s, from, ItemBefore(s, m[j].at) - 1)
         \o ITEM \o <<SP>>
         \o strip(Slice(s, m[j].at + Len(BEGIN_QUOTE), m[j + 1].at - 1))
         \o CollapseFrom(s, m, j + 2, m[j + 1].at + Len(END_QUOTE))

C9_PipelineOrder ==
    pc = "done" =>
        LET r1 == remove_quote_blocks(input)
            r2 == normalize_unicode_math(r1.text)
            r3 == simplify_longtables(r2.text)
            r4 == normalize_bibliography_items(r3.text)
        IN  /\ text = r4.text
            /\ stats = [removed_quote_blocks |-> r1.count,
                        unicode_replacements |-> r2.count,
                        simplified_longtables |-> r3.count,
                        normalized_bibliography_items |-> r4.count]

C9_Witness ==
    /\ pc = "done"
    /\ input = ITEM \o BEGIN_QUOTE \o <<"U+211D">> \o END_QUOTE \o BoxedTable
    /\ stats = [removed_quote_blocks |-> 1, unicode_replacements |-> 1,
                simplified_longtables |-> 1, normalized_bibliography_items |-> 0]
    /\ normalize_bibliography_items(input).count = 1

(***************************************************************************)
(* C10.  As claimed: remove_quote_blocks closes each begin-marker it meets *)
(* outside a previous match with the first end-marker after it, so an      *)
(* outer wrapper around one inner wrapper gives count 1 and leaves the     *)
(* inner begin-marker and the outer end-marker; and for every document the *)
(* begin-markers and the end-markers of the output each number those of    *)
(* the input minus the count.                                              *)
(***************************************************************************)
C10_ScanAndMarkerCounts ==
    AfterFirstQuoteCall =>
        /\ count = PairCount(QuoteMarkers(input, 1), 1, FALSE)
        /\ input = NestedDoc =>
               (count = 1 /\ text = BEGIN_QUOTE \o <<"x">> \o END_QUOTE)
        /\ NumOcc(text, BEGIN_QUOTE) = NumOcc(input, BEGIN_QUOTE) - count
        /\ NumOcc(text, END_QUOTE) = NumOcc(input, END_QUOTE) - count

(***************************************************************************)
(* C10, amended.  The same, with the marker counts claimed only for        *)
(* documents in which the halves of a marker occur only in whole markers.  *)
(***************************************************************************)
C10_ScanAndMarkerCountsFragmentFree ==
    AfterFirstQuoteCall =>
        /\ count = PairCount(QuoteMarkers(input, 1), 1, FALSE)
        /\ input = NestedDoc =>
               (count = 1 /\ text = BEGIN_QUOTE \o <<"x">> \o END_QUOTE)
        /\ FragmentFree(input) =>
               /\ NumOcc(text, BEGIN_QUOTE) = NumOcc(input, BEGIN_QUOTE) - count
               /\ NumOcc(text, END_QUOTE) = NumOcc(input, END_QUOTE) - count

C10_Witness ==
    /\ AfterFirstQuoteCall
    /\ input = NestedDoc
    /\ count = 1
    /\ text = BEGIN_QUOTE \o <<"x">> \o END_QUOTE

====
